---- MODULE Spec2Model ----
(***************************************************************************)
(* GeneralTemporalMemory (sensorimotor/general_temporal_memory.py): a      *)
(* temporal memory layer that learns from internal and external cell       *)
(* activity, with the option of learning on one cell per column between    *)
(* resets.  compute and reset are the two operations; computeFn,           *)
(* burstColumns and reindexActiveExternalCells are translated from the     *)
(* source, the base TemporalMemory / Connections collaborators from the    *)
(* interface the specification gives for them.                             *)
(***************************************************************************)
EXTENDS Integers, FiniteSets, Sequences, TLC

\* ------------------------------------------------------------------ bounds
NumColumns == 2
CellsPerColumn == 2
MaxRawExternal == 1
MaxSegments == 2
MaxReindexCells == 4
MaxReindexRaw == 4

\* --------------------------------------- configuration of the base algorithm
minThreshold == 1
activationThreshold == 1
initialPermanence == 2
connectedPermanence == 3
permanenceIncrement == 1
permanenceDecrement == 1
permanenceMax == 4
maxNewSynapseCount == 1

VARIABLES
  learnOnOneCell,            \* self.learnOnOneCell, fixed at construction
  activeCells,               \* self.activeCells (base)
  winnerCells,               \* self.winnerCells (base)
  predictiveCells,           \* self.predictiveCells (base)
  activeSegments,            \* self.activeSegments (base)
  connections,               \* self.connections: cell -> sequence of segments
  activeExternalCells,       \* self.activeExternalCells
  chosenCellForColumn,       \* self.chosenCellForColumn: column -> cell
  unpredictedActiveColumns,  \* self.unpredictedActiveColumns
  predictedActiveCells,      \* self.predictedActiveCells
  call,                      \* the last operation, its arguments and what
                             \* computeFn handed back (observation only)
  rxNumCells,                \* reindexing on its own: numberOfCells()
  rxRaw,                     \*   the raw identifiers
  rxOut,                     \*   the reindexed set
  rxDone                     \*   whether the transform was applied

vars == <<learnOnOneCell, activeCells, winnerCells, predictiveCells,
          activeSegments, connections, activeExternalCells,
          chosenCellForColumn, unpredictedActiveColumns,
          predictedActiveCells, call, rxNumCells, rxRaw, rxOut, rxDone>>

layerVars == <<learnOnOneCell, activeCells, winnerCells, predictiveCells,
               activeSegments, connections, activeExternalCells,
               chosenCellForColumn, unpredictedActiveColumns,
               predictedActiveCells, call>>

rxVars == <<rxNumCells, rxRaw, rxOut, rxDone>>

\* ---------------------------------------------------------------- topology
Columns == 0 .. (NumColumns - 1)

numberOfCells == NumColumns * CellsPerColumn

InternalCells == 0 .. (numberOfCells - 1)

RawExternalCells == 0 .. (MaxRawExternal - 1)

cellsForColumn(column) ==
  { column * CellsPerColumn + i : i \in 0 .. (CellsPerColumn - 1) }

columnForCell(cell) == cell \div CellsPerColumn

\* ------------------------------------------------------ connectivity graph
\* A segment is named by its cell and its index on that cell; its synapses
\* are a function from presynaptic cell to permanence.
EmptySynapses == [p \in {} |-> 0]

EmptyMap == [c \in {} |-> 0]

EmptyConnections == [c \in InternalCells |-> <<>>]

segmentsForCell(conn, cell) ==
  { [cell |-> cell, idx |-> i] : i \in 1 .. Len(conn[cell]) }

segmentsForCells(conn, cells) ==
  UNION { segmentsForCell(conn, c) : c \in cells }

synapsesForSegment(conn, segment) == conn[segment.cell][segment.idx]

RECURSIVE countSegments(_, _)
countSegments(conn, cells) ==
  IF cells = {} THEN 0
  ELSE LET c == CHOOSE x \in cells : TRUE
       IN Len(conn[c]) + countSegments(conn, cells \ {c})

numSegments(conn) == countSegments(conn, InternalCells)

createSegment(conn, cell) ==
  [conn EXCEPT ![cell] = Append(@, EmptySynapses)]

setSynapses(conn, segment, syn) ==
  [conn EXCEPT ![segment.cell][segment.idx] = syn]

\* number of synapses of the segment whose presynaptic cell is in input
overlap(conn, segment, input) ==
  Cardinality(DOMAIN synapsesForSegment(conn, segment) \cap input)

\* The qualifying segments of the given cells with the highest overlap; the
\* graph's tie-break among them is left open, so each is a possible answer.
mostActiveSegmentForCells(conn, cells, input, threshold) ==
  LET qualifying == { s \in segmentsForCells(conn, cells) :
                         overlap(conn, s, input) >= threshold }
  IN { s \in qualifying :
         \A t \in qualifying : overlap(conn, t, input) <= overlap(conn, s, input) }

\* The cells with the fewest segments; the random draw picks any of them.
leastUsedCell(cells, conn) ==
  { c \in cells : \A d \in cells : Len(conn[c]) <= Len(conn[d]) }

Min(a, b) == IF a <= b THEN a ELSE b

Max(a, b) == IF a >= b THEN a ELSE b

LowestOf(S) == CHOOSE x \in S : \A y \in S : x <= y

KSubsets(S, k) == { T \in SUBSET S : Cardinality(T) = k }

\* -------------------------------------------- base temporal memory phases
\* Phase 1: cells that were predictive and lie in an active column.
activateCorrectlyPredictiveCells(prevPredictiveCells, activeColumns) ==
  LET correct == { cell \in prevPredictiveCells :
                     columnForCell(cell) \in activeColumns }
  IN [activeCells |-> correct,
      winnerCells |-> correct,
      predictedColumns |-> { columnForCell(cell) : cell \in correct }]

\* Reinforcement of one segment: synapses to active cells gain permanence,
\* the others lose it.
adaptSegment(syn, activeSynapses) ==
  [p \in DOMAIN syn |->
     IF p \in activeSynapses
       THEN Min(permanenceMax, syn[p] + permanenceIncrement)
       ELSE Max(0, syn[p] - permanenceDecrement)]

growSynapses(syn, cells) ==
  [p \in DOMAIN syn \cup cells |->
     IF p \in DOMAIN syn THEN syn[p] ELSE initialPermanence]

\* What one pass of the learning loop can leave on one segment.
learnOnSegment(conn, segment, learningSegments, prevActiveCells, winners, prevCellActivity) ==
  LET syn == synapsesForSegment(conn, segment)
      isLearningSegment == segment \in learningSegments
      isFromWinnerCell == segment.cell \in winners
      activeSynapses == DOMAIN syn \cap prevActiveCells
      adapted == IF isLearningSegment \/ isFromWinnerCell
                   THEN adaptSegment(syn, activeSynapses)
                   ELSE syn
      n == maxNewSynapseCount - Cardinality(activeSynapses)
      candidates == prevCellActivity \ DOMAIN syn
      k == IF n <= 0 THEN 0 ELSE Min(n, Cardinality(candidates))
  IN IF isLearningSegment
       THEN { growSynapses(adapted, picked) : picked \in KSubsets(candidates, k) }
       ELSE { adapted }

\* Phase 3: the graphs the learning loop can produce.
RECURSIVE learnOnSegments(_, _, _, _, _, _)
learnOnSegments(todo, learningSegments, prevActiveCells, winners, prevCellActivity, conn) ==
  IF todo = {} THEN { conn }
  ELSE LET segment == CHOOSE s \in todo : TRUE
       IN UNION { learnOnSegments(todo \ {segment}, learningSegments,
                                  prevActiveCells, winners, prevCellActivity,
                                  setSynapses(conn, segment, syn)) :
                  syn \in learnOnSegment(conn, segment, learningSegments,
                                         prevActiveCells, winners,
                                         prevCellActivity) }

\* Phase 4: segments with enough connected synapses to active cells.
computePredictiveCells(activeCellsAll, conn) ==
  LET active == { s \in segmentsForCells(conn, InternalCells) :
                    Cardinality({ p \in DOMAIN synapsesForSegment(conn, s) :
                                    /\ p \in activeCellsAll
                                    /\ synapsesForSegment(conn, s)[p]
                                         >= connectedPermanence })
                      >= activationThreshold }
  IN [activeSegments |-> active,
      predictiveCells |-> { s.cell : s \in active }]

\* --------------------------------------------------------- column bursting
unpredictedColumnsOf_allActive(activeColumns, predictedColumns) ==
  activeColumns

\* "activeColumns - predictedColumns"
unpredictedColumnsOf(activeColumns, predictedColumns) ==
  activeColumns \ predictedColumns

bestCellOf_segmentIdx(bestSegment) == bestSegment.idx

\* "ConnectionsCell(bestSegment.cell.idx)"
bestCellOf(bestSegment) == bestSegment.cell

candidateCells_ignoresChosen(column, learnOnOne, chosen) ==
  cellsForColumn(column)

\* The cells a bursting column may take its winner from.
candidateCells(column, learnOnOne, chosen) ==
  IF learnOnOne /\ column \in DOMAIN chosen
    THEN { chosen[column] }
    ELSE cellsForColumn(column)

\* The learning segment of one bursting column: an existing best segment or
\* a new one on a least used cell.  Each result names the segment and the
\* graph after the lookup.
burstColumn(column, prevActiveCells, learnOnOne, chosen, conn) ==
  LET cells == candidateCells(column, learnOnOne, chosen)
      best == mostActiveSegmentForCells(conn, cells, prevActiveCells,
                                        minThreshold)
  IN IF best = {}
       THEN { [segment |-> [cell |-> cell, idx |-> Len(conn[cell]) + 1],
               connections |-> createSegment(conn, cell)] :
              cell \in leastUsedCell(cells, conn) }
       ELSE { [segment |-> s, connections |-> conn] : s \in best }

chosenWith_onlyThisStep(chosen, column, cell) ==
  [c \in {column} |-> cell]

chosenWith_storesColumn(chosen, column, cell) ==
  [c \in DOMAIN chosen \cup {column} |->
     IF c = column THEN column ELSE chosen[c]]

\* "chosenCellForColumn[column] = bestCell"
chosenWith(chosen, column, cell) ==
  [c \in DOMAIN chosen \cup {column} |->
     IF c = column THEN cell ELSE chosen[c]]

\* The loop over the unpredicted columns, in ascending order.
RECURSIVE burstLoop(_, _, _, _)
burstLoop(todo, prevActiveCells, learnOnOne, acc) ==
  IF todo = {} THEN { acc }
  ELSE LET column == LowestOf(todo)
       IN UNION { burstLoop(todo \ {column}, prevActiveCells, learnOnOne,
                    [activeCells |-> acc.activeCells \cup cellsForColumn(column),
                     winnerCells |-> acc.winnerCells \cup {bestCellOf(b.segment)},
                     learningSegments |-> acc.learningSegments \cup {b.segment},
                     chosenCellForColumn |->
                       chosenWith(acc.chosenCellForColumn, column,
                                  bestCellOf(b.segment)),
                     connections |-> b.connections]) :
                  b \in burstColumn(column, prevActiveCells, learnOnOne,
                                    acc.chosenCellForColumn, acc.connections) }

burstColumns_keepsPrevious(activeColumns, predictedColumns, prevActiveCells, learnOnOne, chosen, conn) ==
  burstLoop(unpredictedColumnsOf(activeColumns, predictedColumns),
            prevActiveCells, learnOnOne,
            [activeCells |-> prevActiveCells, winnerCells |-> {},
             learningSegments |-> {},
             chosenCellForColumn |-> chosen, connections |-> conn])

\* Phase 2.
burstColumns(activeColumns, predictedColumns, prevActiveCells, learnOnOne, chosen, conn) ==
  burstLoop(unpredictedColumnsOf(activeColumns, predictedColumns),
            prevActiveCells, learnOnOne,
            [activeCells |-> {}, winnerCells |-> {}, learningSegments |-> {},
             chosenCellForColumn |-> chosen, connections |-> conn])

\* ------------------------------------------------- external-cell reindexing
reindexActiveExternalCells_noShift(numCells, cells) == cells

reindexActiveExternalCells_wraps(numCells, cells) ==
  { (index + numCells) % (2 * numCells) : index \in cells }

reindexActiveExternalCells(numCells, cells) ==
  { index + numCells : index \in cells }

\* The argument of compute: None (also the default when omitted) or a set.
NoneArg == [none |-> TRUE, cells |-> {}]

ExternalArgs ==
  { NoneArg } \cup
  { [none |-> FALSE, cells |-> S] : S \in SUBSET RawExternalCells }

normalizeExternalCells_noneIsAll(arg) ==
  IF arg.none THEN RawExternalCells ELSE arg.cells

\* "if not activeExternalCells: activeExternalCells = set()"
normalizeExternalCells(arg) ==
  IF arg.none \/ arg.cells = {} THEN {} ELSE arg.cells

\* ------------------------------------------------------------ step function
prevCellActivityAfter_alwaysInternal(prevActiveExternalCells, prevWinnerCells, formInternalConnections, learn) ==
  IF learn
    THEN prevActiveExternalCells \cup prevWinnerCells
    ELSE prevActiveExternalCells

\* The contents of the set passed as prevActiveExternalCells once the
\* learning phase has run: prevCellActivity is that same set, updated in place.
prevCellActivityAfter(prevActiveExternalCells, prevWinnerCells, formInternalConnections, learn) ==
  IF learn /\ formInternalConnections
    THEN prevActiveExternalCells \cup prevWinnerCells
    ELSE prevActiveExternalCells

computeFn_burstsOnGrowthPool(activeColumns, extCells, prevActiveExternalCells, prevPredictiveCells, prevActiveSegments, prevActiveCells, prevWinnerCells, conn, formInternalConnections, learnOnOne, chosen, learn) ==
  LET pred == activateCorrectlyPredictiveCells(prevPredictiveCells,
                                               activeColumns)
      bursts == burstColumns(activeColumns, pred.predictedColumns,
                             prevCellActivityAfter(prevActiveExternalCells,
                               prevWinnerCells, formInternalConnections, TRUE),
                             learnOnOne, chosen, conn)
      prevCellActivity == prevCellActivityAfter(prevActiveExternalCells,
                            prevWinnerCells, formInternalConnections, learn)
  IN UNION {
       LET newActive == pred.activeCells \cup b.activeCells
           newWinners == pred.winnerCells \cup b.winnerCells
           graphs == IF learn
                       THEN learnOnSegments(
                              prevActiveSegments \cup b.learningSegments,
                              b.learningSegments,
                              prevActiveCells \cup prevCellActivity,
                              newWinners, prevCellActivity, b.connections)
                       ELSE { b.connections }
       IN { LET next == computePredictiveCells(newActive \cup extCells, g)
            IN [activeCells |-> newActive,
                winnerCells |-> newWinners,
                activeSegments |-> next.activeSegments,
                predictiveCells |-> next.predictiveCells,
                predictedColumns |-> pred.predictedColumns,
                chosenCellForColumn |-> b.chosenCellForColumn,
                connections |-> g,
                learningSegments |-> b.learningSegments,
                heldExternalCells |-> prevCellActivity,
                heldChosenCell |-> b.chosenCellForColumn] :
            g \in graphs } :
       b \in bursts }

computeFn_burstsOnCurrentExternal(activeColumns, extCells, prevActiveExternalCells, prevPredictiveCells, prevActiveSegments, prevActiveCells, prevWinnerCells, conn, formInternalConnections, learnOnOne, chosen, learn) ==
  LET pred == activateCorrectlyPredictiveCells(prevPredictiveCells,
                                               activeColumns)
      bursts == burstColumns(activeColumns, pred.predictedColumns,
                             prevActiveCells \cup extCells,
                             learnOnOne, chosen, conn)
      prevCellActivity == prevCellActivityAfter(prevActiveExternalCells,
                            prevWinnerCells, formInternalConnections, learn)
  IN UNION {
       LET newActive == pred.activeCells \cup b.activeCells
           newWinners == pred.winnerCells \cup b.winnerCells
           graphs == IF learn
                       THEN learnOnSegments(
                              prevActiveSegments \cup b.learningSegments,
                              b.learningSegments,
                              prevActiveCells \cup prevCellActivity,
                              newWinners, prevCellActivity, b.connections)
                       ELSE { b.connections }
       IN { LET next == computePredictiveCells(newActive \cup extCells, g)
            IN [activeCells |-> newActive,
                winnerCells |-> newWinners,
                activeSegments |-> next.activeSegments,
                predictiveCells |-> next.predictiveCells,
                predictedColumns |-> pred.predictedColumns,
                chosenCellForColumn |-> b.chosenCellForColumn,
                connections |-> g,
                learningSegments |-> b.learningSegments,
                heldExternalCells |-> prevCellActivity,
                heldChosenCell |-> b.chosenCellForColumn] :
            g \in graphs } :
       b \in bursts }

\* The results computeFn can return.  Besides the six-tuple each result
\* carries the graph as the call left it, the learning segments, and the
\* contents, at return, of the set passed as prevActiveExternalCells and of
\* the dict passed as chosenCellForColumn (burstColumns writes into it).
computeFn(activeColumns, extCells, prevActiveExternalCells, prevPredictiveCells, prevActiveSegments, prevActiveCells, prevWinnerCells, conn, formInternalConnections, learnOnOne, chosen, learn) ==
  LET pred == activateCorrectlyPredictiveCells(prevPredictiveCells,
                                               activeColumns)
      bursts == burstColumns(activeColumns, pred.predictedColumns,
                             prevActiveCells \cup prevActiveExternalCells,
                             learnOnOne, chosen, conn)
      prevCellActivity == prevCellActivityAfter(prevActiveExternalCells,
                            prevWinnerCells, formInternalConnections, learn)
  IN UNION {
       LET newActive == pred.activeCells \cup b.activeCells
           newWinners == pred.winnerCells \cup b.winnerCells
           graphs == IF learn
                       THEN learnOnSegments(
                              prevActiveSegments \cup b.learningSegments,
                              b.learningSegments,
                              prevActiveCells \cup prevCellActivity,
                              newWinners, prevCellActivity, b.connections)
                       ELSE { b.connections }
       IN { LET next == computePredictiveCells(newActive \cup extCells, g)
            IN [activeCells |-> newActive,
                winnerCells |-> newWinners,
                activeSegments |-> next.activeSegments,
                predictiveCells |-> next.predictiveCells,
                predictedColumns |-> pred.predictedColumns,
                chosenCellForColumn |-> b.chosenCellForColumn,
                connections |-> g,
                learningSegments |-> b.learningSegments,
                heldExternalCells |-> prevCellActivity,
                heldChosenCell |-> b.chosenCellForColumn] :
            g \in graphs } :
       b \in bursts }

\* --------------------------------------------------------------- the layer
Construct(learnOnOne, conn) ==
  [learnOnOneCell |-> learnOnOne,
   activeCells |-> {},
   winnerCells |-> {},
   predictiveCells |-> {},
   activeSegments |-> {},
   connections |-> conn,
   activeExternalCells |-> {},
   chosenCellForColumn |-> EmptyMap,
   unpredictedActiveColumns |-> {},
   predictedActiveCells |-> {}]

predictedActiveCellsOf_newPrediction(prevPredictiveCells, newPredictiveCells, newActiveCells) ==
  newPredictiveCells \cap newActiveCells

\* "self.predictiveCells & activeCells", before self.predictiveCells is
\* assigned the new predictive cells.
predictedActiveCellsOf(prevPredictiveCells, newPredictiveCells, newActiveCells) ==
  prevPredictiveCells \cap newActiveCells

\* compute: the layers it can leave, each with the record of the call.
compute(self, activeColumns, externalArg, formInternalConnections, learn) ==
  LET extCells == reindexActiveExternalCells(numberOfCells,
                    normalizeExternalCells(externalArg))
  IN { [self |->
          [learnOnOneCell |-> self.learnOnOneCell,
           activeCells |-> r.activeCells,
           winnerCells |-> r.winnerCells,
           predictiveCells |-> r.predictiveCells,
           activeSegments |-> r.activeSegments,
           connections |-> r.connections,
           activeExternalCells |-> extCells,
           chosenCellForColumn |-> r.chosenCellForColumn,
           unpredictedActiveColumns |->
             unpredictedColumnsOf(activeColumns, r.predictedColumns),
           predictedActiveCells |->
             predictedActiveCellsOf(self.predictiveCells, r.predictiveCells,
                                    r.activeCells)],
        externalArg |-> externalArg,
        result |-> r] :
       r \in computeFn(activeColumns, extCells, self.activeExternalCells,
                       self.predictiveCells, self.activeSegments,
                       self.activeCells, self.winnerCells, self.connections,
                       formInternalConnections, self.learnOnOneCell,
                       self.chosenCellForColumn, learn) }

reset_keepsExternalCells(self) ==
  [learnOnOneCell |-> self.learnOnOneCell,
   activeCells |-> {},
   winnerCells |-> {},
   predictiveCells |-> {},
   activeSegments |-> {},
   connections |-> self.connections,
   activeExternalCells |-> self.activeExternalCells,
   chosenCellForColumn |-> EmptyMap,
   unpredictedActiveColumns |-> {},
   predictedActiveCells |-> {}]

reset_keepsChosenCell(self) ==
  [learnOnOneCell |-> self.learnOnOneCell,
   activeCells |-> {},
   winnerCells |-> {},
   predictiveCells |-> {},
   activeSegments |-> {},
   connections |-> self.connections,
   activeExternalCells |-> {},
   chosenCellForColumn |-> self.chosenCellForColumn,
   unpredictedActiveColumns |-> {},
   predictedActiveCells |-> {}]

reset_clearsConnections(self) ==
  [learnOnOneCell |-> self.learnOnOneCell,
   activeCells |-> {},
   winnerCells |-> {},
   predictiveCells |-> {},
   activeSegments |-> {},
   connections |-> EmptyConnections,
   activeExternalCells |-> {},
   chosenCellForColumn |-> EmptyMap,
   unpredictedActiveColumns |-> {},
   predictedActiveCells |-> {}]

\* reset: the base reset clears its per-step sets, the layer its own.
reset(self) ==
  [learnOnOneCell |-> self.learnOnOneCell,
   activeCells |-> {},
   winnerCells |-> {},
   predictiveCells |-> {},
   activeSegments |-> {},
   connections |-> self.connections,
   activeExternalCells |-> {},
   chosenCellForColumn |-> EmptyMap,
   unpredictedActiveColumns |-> {},
   predictedActiveCells |-> {}]

Self ==
  [learnOnOneCell |-> learnOnOneCell,
   activeCells |-> activeCells,
   winnerCells |-> winnerCells,
   predictiveCells |-> predictiveCells,
   activeSegments |-> activeSegments,
   connections |-> connections,
   activeExternalCells |-> activeExternalCells,
   chosenCellForColumn |-> chosenCellForColumn,
   unpredictedActiveColumns |-> unpredictedActiveColumns,
   predictedActiveCells |-> predictedActiveCells]

Becomes(layer) ==
  /\ learnOnOneCell' = layer.learnOnOneCell
  /\ activeCells' = layer.activeCells
  /\ winnerCells' = layer.winnerCells
  /\ predictiveCells' = layer.predictiveCells
  /\ activeSegments' = layer.activeSegments
  /\ connections' = layer.connections
  /\ activeExternalCells' = layer.activeExternalCells
  /\ chosenCellForColumn' = layer.chosenCellForColumn
  /\ unpredictedActiveColumns' = layer.unpredictedActiveColumns
  /\ predictedActiveCells' = layer.predictedActiveCells

RxIdle ==
  /\ rxNumCells = 1
  /\ rxRaw = {}
  /\ rxOut = {}
  /\ rxDone = FALSE

Init ==
  /\ learnOnOneCell \in BOOLEAN
  /\ activeCells = {}
  /\ winnerCells = {}
  /\ predictiveCells = {}
  /\ activeSegments = {}
  /\ connections = EmptyConnections
  /\ activeExternalCells = {}
  /\ chosenCellForColumn = EmptyMap
  /\ unpredictedActiveColumns = {}
  /\ predictedActiveCells = {}
  /\ call = [op |-> "init", externalArg |-> NoneArg]
  /\ RxIdle

Compute ==
  \E activeColumns \in SUBSET Columns, externalArg \in ExternalArgs,
     formInternalConnections \in BOOLEAN, learn \in BOOLEAN :
    \E o \in compute(Self, activeColumns, externalArg,
                     formInternalConnections, learn) :
      /\ numSegments(o.self.connections) <= MaxSegments
      /\ Becomes(o.self)
      /\ call' = [op |-> "compute", externalArg |-> o.externalArg]
      /\ UNCHANGED rxVars

Reset ==
  /\ Becomes(reset(Self))
  /\ call' = [op |-> "reset", externalArg |-> NoneArg]
  /\ UNCHANGED rxVars

Next == Compute \/ Reset

Spec == Init /\ [][Next]_vars

\* ---------------------------------------- reindexing as a function alone
InitReindex ==
  /\ learnOnOneCell = TRUE
  /\ activeCells = {}
  /\ winnerCells = {}
  /\ predictiveCells = {}
  /\ activeSegments = {}
  /\ connections = EmptyConnections
  /\ activeExternalCells = {}
  /\ chosenCellForColumn = EmptyMap
  /\ unpredictedActiveColumns = {}
  /\ predictedActiveCells = {}
  /\ call = [op |-> "init", externalArg |-> NoneArg]
  /\ rxNumCells \in 1 .. MaxReindexCells
  /\ rxRaw \in SUBSET (0 .. MaxReindexRaw)
  /\ rxOut = {}
  /\ rxDone = FALSE

Reindex ==
  /\ ~rxDone
  /\ rxOut' = reindexActiveExternalCells(rxNumCells, rxRaw)
  /\ rxDone' = TRUE
  /\ UNCHANGED <<rxNumCells, rxRaw>>
  /\ UNCHANGED layerVars

NextReindex == Reindex

SpecReindex == InitReindex /\ [][NextReindex]_vars

\* ------------------------------------------------------------------ claims
\* The layers a compute call with these arguments can leave, taken from the
\* current state.
Taken(activeColumns, externalArg, formInternalConnections, learn) ==
  { o \in compute(Self, activeColumns, externalArg, formInternalConnections,
                  learn) :
      numSegments(o.self.connections) <= MaxSegments }

\* C1: with learnOnOneCell, a column that burst in one compute step and
\* bursts again in the next compute step (no reset between) has the same
\* single winner cell in both steps, whatever the flags and external inputs.
C1_Pinning ==
  [][(learnOnOneCell /\ call'.op = "compute") =>
       \A C \in unpredictedActiveColumns \cap unpredictedActiveColumns' :
         /\ Cardinality(winnerCells \cap cellsForColumn(C)) = 1
         /\ winnerCells' \cap cellsForColumn(C)
              = winnerCells \cap cellsForColumn(C)]_vars

\* A column that burst is about to burst again, finds no matching segment
\* and gets a new segment on its pinned cell.
C1_Witness ==
  /\ learnOnOneCell
  /\ call.op = "compute"
  /\ \E C \in unpredictedActiveColumns :
       \E ea \in ExternalArgs, fic \in BOOLEAN, l \in BOOLEAN :
         \E o \in Taken({C}, ea, fic, l) :
           /\ C \in o.self.unpredictedActiveColumns
           /\ o.self.winnerCells = winnerCells \cap cellsForColumn(C)
           /\ numSegments(o.self.connections) > numSegments(connections)

\* C2: with learnOnOneCell, between resets every winner cell of a column in
\* one compute step is the winner cell of that column in the next one, also
\* when the column is correctly predicted.
C2_WinnerFixedBetweenResets ==
  [][(learnOnOneCell /\ call'.op = "compute") =>
       \A C \in Columns :
         \A w1 \in winnerCells \cap cellsForColumn(C) :
           \A w2 \in winnerCells' \cap cellsForColumn(C) : w1 = w2]_vars

\* What a compute call shows of the layers it can leave: the per-step sets,
\* the chosen-cell map, the external cells and the diagnostic sets.
Observed(outcomes) ==
  { [activeCells |-> o.self.activeCells,
     winnerCells |-> o.self.winnerCells,
     predictiveCells |-> o.self.predictiveCells,
     activeSegments |-> o.self.activeSegments,
     chosenCellForColumn |-> o.self.chosenCellForColumn,
     activeExternalCells |-> o.self.activeExternalCells,
     unpredictedActiveColumns |-> o.self.unpredictedActiveColumns,
     predictedActiveCells |-> o.self.predictedActiveCells] : o \in outcomes }

\* C3 as stated: after reset(), compute(X) shows what the first compute(X)
\* of a freshly constructed layer shows, for every X.
C3_ResetLikeFreshLayer ==
  call.op = "reset" =>
    \A ac \in SUBSET Columns, ea \in ExternalArgs, fic \in BOOLEAN,
       l \in BOOLEAN :
      Observed(compute(Self, ac, ea, fic, l))
        = Observed(compute(Construct(learnOnOneCell, EmptyConnections),
                           ac, ea, fic, l))

\* C3 amended: after reset(), compute(X) can leave exactly the layers that
\* the first compute(X) can leave on a layer freshly constructed over the
\* connectivity graph as it stands at the reset.
C3_ResetLikeFreshLayerOnSameGraph ==
  call.op = "reset" =>
    \A ac \in SUBSET Columns, ea \in ExternalArgs, fic \in BOOLEAN,
       l \in BOOLEAN :
      compute(Self, ac, ea, fic, l)
        = compute(Construct(learnOnOneCell, connections), ac, ea, fic, l)

\* A reset after an episode that left a segment with a synapse to an
\* external cell.
C3_Witness ==
  /\ call.op = "reset"
  /\ \E s \in segmentsForCells(connections, InternalCells) :
       DOMAIN synapsesForSegment(connections, s) \ InternalCells # {}

\* C4: after reset() the chosen-cell map, the external cells, the diagnostic
\* sets and the base per-step sets are empty, and the next compute bursts
\* every column over all of the column's cells, as a layer without
\* learnOnOneCell would.
C4_ResetClearsPinning ==
  call.op = "reset" =>
    /\ chosenCellForColumn = EmptyMap
    /\ activeExternalCells = {}
    /\ unpredictedActiveColumns = {}
    /\ predictedActiveCells = {}
    /\ activeCells = {} /\ winnerCells = {}
    /\ predictiveCells = {} /\ activeSegments = {}
    /\ \A C \in Columns :
         candidateCells(C, learnOnOneCell, chosenCellForColumn)
           = cellsForColumn(C)
    /\ \A ac \in SUBSET Columns :
         burstColumns(ac, {}, activeCells \cup activeExternalCells,
                      learnOnOneCell, chosenCellForColumn, connections)
           = burstColumns(ac, {}, activeCells \cup activeExternalCells,
                          FALSE, EmptyMap, connections)

\* A reset of a learnOnOneCell layer in which some cell owns every segment
\* of its column: the cell the column was pinned to.
C4_Witness ==
  /\ call.op = "reset"
  /\ learnOnOneCell
  /\ \E C \in Columns : \E W \in cellsForColumn(C) :
       /\ Len(connections[W]) > 0
       /\ \A V \in cellsForColumn(C) \ {W} : Len(connections[V]) = 0

\* C5: computeFn leaves the set passed as prevActiveExternalCells and the
\* dict passed as chosenCellForColumn with the contents they had at the call.
C5_ComputeFnMutatesNothing ==
  \A ac \in SUBSET Columns, ea \in ExternalArgs, fic \in BOOLEAN,
     l \in BOOLEAN :
    \A o \in Taken(ac, ea, fic, l) :
      /\ o.result.heldExternalCells = activeExternalCells
      /\ o.result.heldChosenCell = chosenCellForColumn

\* C6: in every compute step unpredictedActiveColumns and predictedColumns
\* are disjoint subsets of activeColumns whose union is activeColumns.
C6_PredictedUnpredictedPartition ==
  \A ac \in SUBSET Columns, ea \in ExternalArgs, fic \in BOOLEAN,
     l \in BOOLEAN :
    \A o \in Taken(ac, ea, fic, l) :
      /\ o.self.unpredictedActiveColumns \cap o.result.predictedColumns = {}
      /\ o.self.unpredictedActiveColumns \cup o.result.predictedColumns = ac
      /\ o.self.unpredictedActiveColumns \subseteq ac
      /\ o.result.predictedColumns \subseteq ac

\* A compute step that left one column bursting and another correctly
\* predicted.
C6_Witness ==
  /\ call.op = "compute"
  /\ unpredictedActiveColumns # {}
  /\ predictedActiveCells # {}
  /\ \E c \in predictedActiveCells :
       columnForCell(c) \notin unpredictedActiveColumns

\* C7: in every compute step each active, unpredicted column has all its
\* cells active and exactly one winner cell, a cell of the column that owns
\* the column's one learning segment; the chosen-cell map holds it.
C7_BurstingColumnHasOneWinner ==
  \A ac \in SUBSET Columns, ea \in ExternalArgs, fic \in BOOLEAN,
     l \in BOOLEAN :
    \A o \in Taken(ac, ea, fic, l) :
      \A C \in ac \ o.result.predictedColumns :
        /\ cellsForColumn(C) \subseteq o.self.activeCells
        /\ Cardinality(o.self.winnerCells \cap cellsForColumn(C)) = 1
        /\ Cardinality({ s \in o.result.learningSegments :
                           s.cell \in cellsForColumn(C) }) = 1
        /\ \A s \in o.result.learningSegments :
             s.cell \in cellsForColumn(C) =>
               /\ s.cell \in o.self.winnerCells
               /\ s \in segmentsForCell(o.self.connections, s.cell)
        /\ C \in DOMAIN o.self.chosenCellForColumn
        /\ o.self.chosenCellForColumn[C] \in o.self.winnerCells
        /\ o.self.chosenCellForColumn[C] \in cellsForColumn(C)

\* Both columns burst in one compute step, one of them on its second cell.
C7_Witness ==
  /\ call.op = "compute"
  /\ unpredictedActiveColumns = Columns
  /\ activeCells = InternalCells
  /\ Cardinality(winnerCells) = NumColumns
  /\ \E C \in Columns : chosenCellForColumn[C] # LowestOf(cellsForColumn(C))

WinnersOf(outcomes) ==
  { [winnerCells |-> o.self.winnerCells,
     activeCells |-> o.self.activeCells,
     chosenCellForColumn |-> o.self.chosenCellForColumn] : o \in outcomes }

\* C8: from the same state and with the same activeColumns, external cells
\* and learn, compute with formInternalConnections on and off can leave the
\* same winner cells, active cells and chosen-cell maps.
C8_WinnerIndependentOfFormInternalConnections ==
  \A ac \in SUBSET Columns, ea \in ExternalArgs, l \in BOOLEAN :
    WinnersOf(compute(Self, ac, ea, TRUE, l))
      = WinnersOf(compute(Self, ac, ea, FALSE, l))

\* A state with previous winner cells from which a column bursts and the
\* flag decides what the learning segment grows.
C8_Witness ==
  /\ call.op = "compute"
  /\ winnerCells # {}
  /\ \E ac \in SUBSET Columns, ea \in ExternalArgs :
       /\ Taken(ac, ea, TRUE, TRUE) # {}
       /\ \E o \in Taken(ac, ea, TRUE, TRUE) :
            o.self.unpredictedActiveColumns # {}
       /\ { o.self.connections : o \in compute(Self, ac, ea, TRUE, TRUE) }
            # { o.self.connections : o \in compute(Self, ac, ea, FALSE, TRUE) }

\* C9: reindexing shifts every raw identifier by numberOfCells: the result
\* lies outside [0, numberOfCells), distinct identifiers stay distinct, and
\* the result is the shifted set whatever the layer's state.
C9_ReindexDisjointInjective ==
  rxDone =>
    /\ rxOut \cap (0 .. (rxNumCells - 1)) = {}
    /\ Cardinality(rxOut) = Cardinality(rxRaw)
    /\ \A i \in rxRaw : i + rxNumCells \in rxOut
    /\ \A j \in rxOut : j - rxNumCells \in rxRaw

\* Raw identifiers below and at numberOfCells = 4, shifted.
C9_Witness ==
  /\ rxDone
  /\ rxNumCells = 4
  /\ rxRaw = {0, 3, 4}
  /\ rxOut = {4, 7, 8}

\* C10: compute with activeExternalCells None (also when omitted) and with
\* the empty set can leave the same layers; activeExternalCells is then
\* empty and the prediction is made from the internal active cells alone.
C10_NoneAndEmptyExternalCells ==
  \A ac \in SUBSET Columns, fic \in BOOLEAN, l \in BOOLEAN :
    /\ { o.self : o \in compute(Self, ac, NoneArg, fic, l) }
         = { o.self : o \in compute(Self, ac, [none |-> FALSE, cells |-> {}],
                                    fic, l) }
    /\ \A o \in compute(Self, ac, NoneArg, fic, l) :
         /\ o.self.activeExternalCells = {}
         /\ o.self.activeSegments
              = computePredictiveCells(o.self.activeCells,
                                       o.self.connections).activeSegments
         /\ o.self.predictiveCells
              = computePredictiveCells(o.self.activeCells,
                                       o.self.connections).predictiveCells

\* A compute called with None after a step with external cells, on a graph
\* that holds a connected synapse to an external cell.
C10_Witness ==
  /\ call.op = "compute"
  /\ call.externalArg.none
  /\ activeExternalCells = {}
  /\ activeCells # {}
  /\ \E s \in segmentsForCells(connections, InternalCells) :
       \E p \in DOMAIN synapsesForSegment(connections, s) :
         /\ p \notin InternalCells
         /\ synapsesForSegment(connections, s)[p] >= connectedPermanence

\* The presynaptic cells of the synapses a graph has and another lacks.
grownSynapses(before, after) ==
  UNION { IF s \in segmentsForCell(before, s.cell)
            THEN DOMAIN synapsesForSegment(after, s)
                   \ DOMAIN synapsesForSegment(before, s)
            ELSE DOMAIN synapsesForSegment(after, s) :
          s \in segmentsForCells(after, InternalCells) }

\* C11: in a compute with learn, permanences rise only on synapses to the
\* previous active internal or external cells and fall only on others; new
\* synapses go to previous external cells only without
\* formInternalConnections (never to an internal cell), and to previous
\* external or previous winner cells with it.
C11_LearningPools ==
  \A ac \in SUBSET Columns, ea \in ExternalArgs, fic \in BOOLEAN :
    \A o \in Taken(ac, ea, fic, TRUE) :
      /\ o.result.heldExternalCells
           = IF fic THEN activeExternalCells \cup winnerCells
                    ELSE activeExternalCells
      /\ grownSynapses(connections, o.self.connections)
           \subseteq o.result.heldExternalCells
      /\ ~fic => grownSynapses(connections, o.self.connections)
                   \cap InternalCells = {}
      /\ \A s \in segmentsForCells(connections, InternalCells) :
           \A p \in DOMAIN synapsesForSegment(connections, s) :
             /\ synapsesForSegment(o.self.connections, s)[p]
                  > synapsesForSegment(connections, s)[p]
                  => p \in activeCells \cup activeExternalCells
             /\ synapsesForSegment(o.self.connections, s)[p]
                  < synapsesForSegment(connections, s)[p]
                  => p \notin activeCells \cup activeExternalCells

\* A state with previous winner and external cells from which a bursting
\* column can grow a synapse to an internal cell with
\* formInternalConnections and can only grow one to an external cell
\* without it.
C11_Witness ==
  /\ call.op = "compute"
  /\ winnerCells # {}
  /\ activeExternalCells # {}
  /\ \E ac \in SUBSET Columns, ea \in ExternalArgs :
       /\ \E o \in Taken(ac, ea, TRUE, TRUE) :
            grownSynapses(connections, o.self.connections)
              \cap InternalCells # {}
       /\ \E o \in Taken(ac, ea, FALSE, TRUE) :
            grownSynapses(connections, o.self.connections) # {}

\* C12: after a compute, predictedActiveCells is the predictive cells as
\* they stood before the call intersected with the new active cells; on the
\* first compute after construction or reset it is empty.
C12_PredictedActiveCellsFromPreviousPrediction ==
  [][call'.op = "compute" =>
       /\ predictedActiveCells' = predictiveCells \cap activeCells'
       /\ call.op \in {"init", "reset"} => predictedActiveCells' = {}]_vars

\* A compute that left predicted active cells other than the cells the new
\* prediction shares with the active cells.
C12_Witness ==
  /\ call.op = "compute"
  /\ predictedActiveCells # {}
  /\ predictedActiveCells # predictiveCells \cap activeCells

\* C13: a bursting column's learning segment is looked up against the
\* previous active cells and the previous external cells (an existing
\* segment reaches minThreshold on them, a new one means none did) and the
\* winners do not depend on this call's external cells; the active segments
\* and predictive cells left by the call are those of this call's active
\* cells and external cells.
C13_ExternalCellsOneStepOffset ==
  \A ac \in SUBSET Columns, ea \in ExternalArgs, fic \in BOOLEAN,
     l \in BOOLEAN :
    /\ \A eb \in ExternalArgs :
         WinnersOf(compute(Self, ac, ea, fic, l))
           = WinnersOf(compute(Self, ac, eb, fic, l))
    /\ \A o \in Taken(ac, ea, fic, l) :
         /\ \A s \in o.result.learningSegments :
              IF s \in segmentsForCell(connections, s.cell)
                THEN overlap(connections, s,
                             activeCells \cup activeExternalCells)
                       >= minThreshold
                ELSE \A t \in segmentsForCells(connections,
                                 candidateCells(columnForCell(s.cell),
                                   learnOnOneCell, chosenCellForColumn)) :
                       overlap(connections, t,
                               activeCells \cup activeExternalCells)
                         < minThreshold
         /\ o.self.activeSegments
              = computePredictiveCells(
                  o.self.activeCells \cup o.self.activeExternalCells,
                  o.self.connections).activeSegments
         /\ o.self.predictiveCells
              = computePredictiveCells(
                  o.self.activeCells \cup o.self.activeExternalCells,
                  o.self.connections).predictiveCells

\* External cells were supplied in the last compute; a column bursting now,
\* with no external cells supplied, finds its segment through them, and a
\* column bursting with them supplied becomes predictive through them.
C13_Witness ==
  /\ call.op = "compute"
  /\ activeExternalCells # {}
  /\ \E ac \in SUBSET Columns, fic \in BOOLEAN, l \in BOOLEAN :
       \E o \in Taken(ac, [none |-> FALSE, cells |-> {}], fic, l) :
         \E s \in o.result.learningSegments :
           /\ s \in segmentsForCell(connections, s.cell)
           /\ overlap(connections, s, activeCells) < minThreshold
  /\ \E ac \in SUBSET Columns, ea \in ExternalArgs, fic \in BOOLEAN,
        l \in BOOLEAN :
       \E o \in Taken(ac, ea, fic, l) :
         /\ o.self.predictiveCells # {}
         /\ computePredictiveCells(o.self.activeCells,
                                   o.self.connections).predictiveCells = {}

\* C14: a compute with learn = FALSE leaves the connectivity graph as it
\* was: no segment created, no synapse added, no permanence changed.
C14_NoLearningLeavesGraphUnchanged ==
  \A ac \in SUBSET Columns, ea \in ExternalArgs, fic \in BOOLEAN :
    \A o \in Taken(ac, ea, fic, FALSE) :
      o.self.connections = connections

\* C15: a compute changes the chosen-cell map only at the columns that are
\* active and unpredicted in it and removes no entry; with learnOnOneCell an
\* entry keeps its cell until the next reset.
C15_ChosenCellEntriesPersist ==
  [][call'.op = "compute" =>
       /\ DOMAIN chosenCellForColumn \subseteq DOMAIN chosenCellForColumn'
       /\ \A C \in DOMAIN chosenCellForColumn' \ unpredictedActiveColumns' :
            /\ C \in DOMAIN chosenCellForColumn
            /\ chosenCellForColumn'[C] = chosenCellForColumn[C]
       /\ learnOnOneCell =>
            \A C \in DOMAIN chosenCellForColumn :
              chosenCellForColumn'[C] = chosenCellForColumn[C]]_vars

\* After a compute the map holds an entry for a column that was correctly
\* predicted and one for a column that was not active, next to the entry of
\* a bursting column.
C15_Witness ==
  /\ call.op = "compute"
  /\ Cardinality(DOMAIN chosenCellForColumn) = NumColumns
  /\ \E C \in DOMAIN chosenCellForColumn :
       /\ C \notin unpredictedActiveColumns
       /\ cellsForColumn(C) \cap activeCells = {}
  /\ \E ac \in SUBSET Columns, ea \in ExternalArgs, fic \in BOOLEAN,
        l \in BOOLEAN :
       \E o \in Taken(ac, ea, fic, l) :
         /\ o.result.predictedColumns # {}
         /\ o.self.unpredictedActiveColumns # {}

\* C16: after a compute the persisted activeExternalCells is the raw
\* argument shifted by numberOfCells and holds no internal cell.
C16_PersistedExternalCellsAreReindexedArgument ==
  /\ activeExternalCells \cap InternalCells = {}
  /\ call.op = "compute" =>
       activeExternalCells
         = { i + numberOfCells : i \in call.externalArg.cells }

\* A compute with external cells and learning on internal connections,
\* which put the previous winner cells into the previous external set: the
\* graph holds a synapse to an internal cell.
C16_Witness ==
  /\ call.op = "compute"
  /\ call.externalArg.cells # {}
  /\ activeExternalCells # {}
  /\ winnerCells # {}
  /\ \E s \in segmentsForCells(connections, InternalCells) :
       DOMAIN synapsesForSegment(connections, s) \cap InternalCells # {}

\* C17: winner cells are active cells, and after a compute every active
\* cell and every winner cell lies in one of the call's active columns.
C17_WinnersActiveWithinActiveColumns ==
  /\ winnerCells \subseteq activeCells
  /\ \A ac \in SUBSET Columns, ea \in ExternalArgs, fic \in BOOLEAN,
        l \in BOOLEAN :
       \A o \in Taken(ac, ea, fic, l) :
         /\ o.self.winnerCells \subseteq o.self.activeCells
         /\ \A c \in o.self.activeCells : columnForCell(c) \in ac
         /\ o.self.activeCells \subseteq InternalCells

\* After a compute in which every column was active, one in which a single
\* column is active leaves the other column's cells inactive.
C17_Witness ==
  /\ call.op = "compute"
  /\ activeCells = InternalCells
  /\ \E C \in Columns, ea \in ExternalArgs, fic \in BOOLEAN, l \in BOOLEAN :
       \E o \in Taken({C}, ea, fic, l) :
         /\ o.self.activeCells # {}
         /\ o.self.activeCells \subseteq cellsForColumn(C)
         /\ o.self.winnerCells # winnerCells

\* C18: every entry of the chosen-cell map sends a column to one of that
\* column's cells.
C18_ChosenCellBelongsToColumn ==
  \A C \in DOMAIN chosenCellForColumn :
    /\ C \in Columns
    /\ chosenCellForColumn[C] \in cellsForColumn(C)
    /\ chosenCellForColumn[C] \in InternalCells

\* Every column has an entry, after computes with external cells.
C18_Witness ==
  /\ DOMAIN chosenCellForColumn = Columns
  /\ activeExternalCells # {}
  /\ \E C \in Columns : chosenCellForColumn[C] # C

\* C19: reset leaves the connectivity graph as it was.
C19_ResetKeepsConnections ==
  [][call'.op = "reset" => connections' = connections]_vars

\* A reset after which a compute makes a cell predictive through a segment
\* learned before the reset.
C19_Witness ==
  /\ call.op = "reset"
  /\ connections # EmptyConnections
  /\ \E ac \in SUBSET Columns, ea \in ExternalArgs, fic \in BOOLEAN :
       \E o \in Taken(ac, ea, fic, FALSE) :
         \E s \in o.self.activeSegments :
           /\ s \in segmentsForCell(connections, s.cell)
           /\ s.cell \in o.self.predictiveCells

====
